---------------------------- MODULE Spec2Model ----------------------------
(***************************************************************************)
(* Validation library of schema-challenge: lib/types.js (the validator     *)
(* hierarchy and ValidationError) and the schema declarations built on it. *)
(*                                                                         *)
(* JavaScript values are tagged records:                                   *)
(*   [t |-> "undefined"], [t |-> "null"], [t |-> "boolean", b |-> ...],    *)
(*   [t |-> "number", num |-> n, den |-> d]  (the rational n/d, d > 0),    *)
(*   [t |-> "string", s |-> <<characters>>],                               *)
(*   [t |-> "function"]  (a method inherited from a prototype),            *)
(*   [t |-> "object", props |-> <<[k |-> key, v |-> value], ...>>]        *)
(*       (own enumerable properties in enumeration order).                 *)
(* Property keys and error-message fragments are TLA+ strings; a message   *)
(* built by `a + ': ' + b` is the sequence of its fragments.               *)
(***************************************************************************)
EXTENDS Integers, Sequences, FiniteSets, TLC

VARIABLES
    validator,   \* the validator object under test
    literal,     \* the value its constructor was given: the expected value of
                 \* a ConstantType, the event name of an EventType
    value,       \* the argument of the last validate call
    outcome,     \* what the last call returned or threw
    pc,          \* "constructed", then "validated" or "contract"; "kept" when a
                 \* caller has just kept the result of its call; in the service
                 \* "listening", then the route of the request handled
    mappings,    \* the field-mapping objects callers hold, by address
    objects,     \* the SchemaType and EventType objects constructed from them
    inputs,      \* the input values callers hold
    kept,        \* the result of an earlier validate call a caller kept: the
                 \* validator called, its argument, and what it returned or threw
    responses    \* what the handler of the last request passed to res.send, in
                 \* order, each with the status set at that time

vars ==
    <<validator, literal, value, outcome, pc, mappings, objects, inputs, kept,
      responses>>

---------------------------------------------------------------------------
(* JavaScript values *)

Undefined == [t |-> "undefined"]

Null == [t |-> "null"]

Bool(b) == [t |-> "boolean", b |-> b]

Num(n) == [t |-> "number", num |-> n, den |-> 1]

Frac(n, d) == [t |-> "number", num |-> n, den |-> d]

Str(chars) == [t |-> "string", s |-> chars]

Function == [t |-> "function"]

Obj(props) == [t |-> "object", props |-> props]

Prop(k, v) == [k |-> k, v |-> v]

\* value === other  (no NaN is modelled, so strict equality is identity of
\* type and content; objects are compared by reference and the model never
\* holds two references to one input object)
StrictEquals(a, b) ==
    /\ a.t = b.t
    /\ a.t \notin {"object", "function"}
    /\ CASE a.t = "boolean" -> a.b = b.b
         [] a.t = "number" -> a.num * b.den = b.num * a.den
         [] a.t = "string" -> a.s = b.s
         [] OTHER -> TRUE

\* ToBoolean(value): the operand test of `||` and `&&`
Truthy(v) ==
    CASE v.t \in {"undefined", "null"} -> FALSE
      [] v.t = "boolean" -> v.b
      [] v.t = "number" -> v.num # 0
      [] v.t = "string" -> v.s # <<>>
      [] OTHER -> TRUE

\* a || b
OrElse(a, b) == IF Truthy(a) THEN a ELSE b

\* Names every object inherits from Object.prototype
ObjectPrototypeKeys ==
    {"constructor", "toString", "toLocaleString", "valueOf", "hasOwnProperty",
     "isPrototypeOf", "propertyIsEnumerable", "__proto__"}

OwnKeys(obj) == {obj.props[i].k : i \in DOMAIN obj.props}

OwnValue(obj, key) ==
    LET i == CHOOSE j \in DOMAIN obj.props : obj.props[j].k = key
    IN  obj.props[i].v

\* Decimal names of the first array/string indices
IndexNames ==
    <<"0", "1", "2", "3", "4", "5", "6", "7", "8", "9", "10", "11",
     "12", "13", "14", "15", "16", "17", "18", "19", "20", "21", "22",
     "23", "24", "25", "26", "27", "28", "29", "30", "31", "32", "33",
     "34", "35", "36", "37", "38", "39">>

IndexNameSet == {IndexNames[i] : i \in DOMAIN IndexNames}

\* The key is the canonical decimal name of an array index
IsArrayIndex(key) == key \in IndexNameSet

\* The index an array-index key names
IndexOf(key) == (CHOOSE i \in DOMAIN IndexNames : IndexNames[i] = key) - 1

\* The order for..in visits the own properties of an object whose properties
\* were created in the order of `props`: array-index keys first, ascending,
\* then every other key in creation order
ForInOrder(props) ==
    LET indexed == {i \in DOMAIN props : IsArrayIndex(props[i].k)}
        nth(n) == CHOOSE i \in indexed :
                      Cardinality({j \in indexed :
                                      IndexOf(props[j].k) < IndexOf(props[i].k)}) = n - 1
    IN  [n \in 1..Cardinality(indexed) |-> props[nth(n)]]
        \o SelectSeq(props, LAMBDA p : ~IsArrayIndex(p.k))

---------------------------------------------------------------------------
(* Characters *)

Digits == <<"0", "1", "2", "3", "4", "5", "6", "7", "8", "9">>

IsDigit(c) == \E i \in DOMAIN Digits : Digits[i] = c

DigitVal(c) == (CHOOSE i \in DOMAIN Digits : Digits[i] = c) - 1

RECURSIVE DecimalValue(_)
DecimalValue(chars) ==
    IF chars = <<>> THEN 0
    ELSE 10 * DecimalValue(SubSeq(chars, 1, Len(chars) - 1))
           + DigitVal(chars[Len(chars)])

AllDigits(chars) == \A i \in DOMAIN chars : IsDigit(chars[i])

RECURSIVE Pad(_, _)
\* n written in decimal with exactly `width` digits
Pad(n, width) ==
    IF width = 0 THEN <<>>
    ELSE Append(Pad(n \div 10, width - 1), Digits[(n % 10) + 1])

---------------------------------------------------------------------------
(* String literals used as inputs *)

\* "hi there"
sHello ==
    <<"h", "i", " ", "t", "h", "e", "r", "e">>

\* "10"
sTen ==
    <<"1", "0">>

\* ""
sEmpty ==
    <<>>

\* "SMS"
sSMS ==
    <<"S", "M", "S">>

\* "IM"
sIM ==
    <<"I", "M">>

\* "2017-08-18T19:42:15.423Z"
sIsoCanonical ==
    <<"2", "0", "1", "7", "-", "0", "8", "-", "1", "8", "T", "1", "9", ":", "4", "2", ":", "1", "5", ".", "4", "2", "3", "Z">>

\* "2017-08-18"
sIsoDateOnly ==
    <<"2", "0", "1", "7", "-", "0", "8", "-", "1", "8">>

\* "2017-12-31T24:00:00.000Z"
sIsoHour24 ==
    <<"2", "0", "1", "7", "-", "1", "2", "-", "3", "1", "T", "2", "4", ":", "0", "0", ":", "0", "0", ".", "0", "0", "0", "Z">>

\* "2016-02-30T00:00:00.000Z"
sIsoFeb30 ==
    <<"2", "0", "1", "6", "-", "0", "2", "-", "3", "0", "T", "0", "0", ":", "0", "0", ":", "0", "0", ".", "0", "0", "0", "Z">>

\* "2017-13-18T19:42:15.423Z"
sIsoMonth13 ==
    <<"2", "0", "1", "7", "-", "1", "3", "-", "1", "8", "T", "1", "9", ":", "4", "2", ":", "1", "5", ".", "4", "2", "3", "Z">>

\* "2016-02-29T23:59:59.999Z"
sIsoLeapDay ==
    <<"2", "0", "1", "6", "-", "0", "2", "-", "2", "9", "T", "2", "3", ":", "5", "9", ":", "5", "9", ".", "9", "9", "9", "Z">>

\* "7cb08a8a-652e-4a23-9853-9299faafd874"
sUuidV4 ==
    <<"7", "c", "b", "0", "8", "a", "8", "a", "-", "6", "5", "2", "e", "-", "4", "a", "2", "3", "-", "9", "8", "5", "3", "-", "9", "2", "9", "9", "f", "a", "a", "f", "d", "8", "7", "4">>

\* "7CB08A8A-652E-1A23-B853-9299FAAFD874"
sUuidUpper ==
    <<"7", "C", "B", "0", "8", "A", "8", "A", "-", "6", "5", "2", "E", "-", "1", "A", "2", "3", "-", "B", "8", "5", "3", "-", "9", "2", "9", "9", "F", "A", "A", "F", "D", "8", "7", "4">>

\* "7cb08a8a-652e-6a23-9853-9299faafd874"
sUuidVersion6 ==
    <<"7", "c", "b", "0", "8", "a", "8", "a", "-", "6", "5", "2", "e", "-", "6", "a", "2", "3", "-", "9", "8", "5", "3", "-", "9", "2", "9", "9", "f", "a", "a", "f", "d", "8", "7", "4">>

\* "7cb08a8a-652e-4a23-c853-9299faafd874"
sUuidVariantC ==
    <<"7", "c", "b", "0", "8", "a", "8", "a", "-", "6", "5", "2", "e", "-", "4", "a", "2", "3", "-", "c", "8", "5", "3", "-", "9", "2", "9", "9", "f", "a", "a", "f", "d", "8", "7", "4">>

\* "7cb08a8a-652e-4a23-9853-9299faafd87"
sUuidShort ==
    <<"7", "c", "b", "0", "8", "a", "8", "a", "-", "6", "5", "2", "e", "-", "4", "a", "2", "3", "-", "9", "8", "5", "3", "-", "9", "2", "9", "9", "f", "a", "a", "f", "d", "8", "7">>

\* "7cb08a8a0652e-4a23-9853-9299faafd874"
sUuidNoDash ==
    <<"7", "c", "b", "0", "8", "a", "8", "a", "0", "6", "5", "2", "e", "-", "4", "a", "2", "3", "-", "9", "8", "5", "3", "-", "9", "2", "9", "9", "f", "a", "a", "f", "d", "8", "7", "4">>

\* "7cb08a8g-652e-4a23-9853-9299faafd874"
sUuidNonHex ==
    <<"7", "c", "b", "0", "8", "a", "8", "g", "-", "6", "5", "2", "e", "-", "4", "a", "2", "3", "-", "9", "8", "5", "3", "-", "9", "2", "9", "9", "f", "a", "a", "f", "d", "8", "7", "4">>

---------------------------------------------------------------------------
(* Dates: `new Date(value)` and `Date.prototype.toISOString`, as the       *)
(* ISO8601 validator uses them (types.js 134-135).  A time value is NaN or *)
(* [day |-> days since 1970-01-01, ms |-> milliseconds into that day].     *)

NaN == [nan |-> TRUE]

TimeValue(day, ms) == [nan |-> FALSE, day |-> day, ms |-> ms]

MsPerDay == 24 * 60 * 60 * 1000

\* Days since the epoch of the proleptic Gregorian date y-m-d (MakeDay)
DaysFromCivil(y, m, d) ==
    LET yy == IF m <= 2 THEN y - 1 ELSE y
        era == yy \div 400
        yoe == yy - era * 400
        mp == IF m > 2 THEN m - 3 ELSE m + 9
        doy == (153 * mp + 2) \div 5 + d - 1
        doe == yoe * 365 + yoe \div 4 - yoe \div 100 + doy
    IN  era * 146097 + doe - 719468

\* The Gregorian date of a day number (YearFromTime, MonthFromTime, DateFromTime)
CivilFromDays(days) ==
    LET z == days + 719468
        era == z \div 146097
        doe == z - era * 146097
        yoe == (doe - doe \div 1460 + doe \div 36524 - doe \div 146096) \div 365
        doy == doe - (365 * yoe + yoe \div 4 - yoe \div 100)
        mp == (5 * doy + 2) \div 153
        d == doy - (153 * mp + 2) \div 5 + 1
        m == IF mp < 10 THEN mp + 3 ELSE mp - 9
        y == yoe + era * 400 + (IF m <= 2 THEN 1 ELSE 0)
    IN  [y |-> y, m |-> m, d |-> d]

\* MakeDate(MakeDay(y, m, d), MakeTime(h, mi, s, ms)), carrying hour 24 over
MakeDate(y, m, d, h, mi, s, ms) ==
    LET t == ((h * 60 + mi) * 60 + s) * 1000 + ms
    IN  TimeValue(DaysFromCivil(y, m, d) + t \div MsPerDay, t % MsPerDay)

\* chars[from..to] are all digits
DigitsAt(chars, from, to) == \A i \in from..to : IsDigit(chars[i])

Field(chars, from, to) == DecimalValue(SubSeq(chars, from, to))

\* YYYY-MM-DD with legal element values (V8 accepts any day 1..31 and lets
\* MakeDay carry the overflow into the next month)
IsIsoDate(chars) ==
    /\ Len(chars) >= 10
    /\ DigitsAt(chars, 1, 4) /\ chars[5] = "-"
    /\ DigitsAt(chars, 6, 7) /\ chars[8] = "-"
    /\ DigitsAt(chars, 9, 10)
    /\ Field(chars, 6, 7) \in 1..12
    /\ Field(chars, 9, 10) \in 1..31

\* THH:mm:ss.sssZ at positions 11..24 with legal element values
IsIsoTime(chars) ==
    /\ Len(chars) = 24
    /\ chars[11] = "T"
    /\ DigitsAt(chars, 12, 13) /\ chars[14] = ":"
    /\ DigitsAt(chars, 15, 16) /\ chars[17] = ":"
    /\ DigitsAt(chars, 18, 19) /\ chars[20] = "."
    /\ DigitsAt(chars, 21, 23) /\ chars[24] = "Z"
    /\ Field(chars, 15, 16) \in 0..59
    /\ Field(chars, 18, 19) \in 0..59
    /\ \/ Field(chars, 12, 13) \in 0..23
       \/ /\ Field(chars, 12, 13) = 24
          /\ Field(chars, 15, 16) = 0
          /\ Field(chars, 18, 19) = 0
          /\ Field(chars, 21, 23) = 0

\* The engine's fallback for strings outside the ISO format: V8 reads a bare
\* number 1..12 as that month of 2001 and rejects every other string modelled
\* here (the process is taken to run in UTC)
LegacyDateParse(chars) ==
    IF /\ Len(chars) \in 1..2
       /\ AllDigits(chars)
       /\ DecimalValue(chars) \in 1..12
    THEN MakeDate(2001, DecimalValue(chars), 1, 0, 0, 0, 0)
    ELSE NaN

\* Date.parse(string)
DateParse(chars) ==
    IF IsIsoDate(chars) /\ Len(chars) = 10
    THEN MakeDate(Field(chars, 1, 4), Field(chars, 6, 7), Field(chars, 9, 10),
                  0, 0, 0, 0)
    ELSE IF IsIsoDate(chars) /\ IsIsoTime(chars)
    THEN MakeDate(Field(chars, 1, 4), Field(chars, 6, 7), Field(chars, 9, 10),
                  Field(chars, 12, 13), Field(chars, 15, 16),
                  Field(chars, 18, 19), Field(chars, 21, 23))
    ELSE LegacyDateParse(chars)

\* The time value of `new Date(value)` for one argument
NewDate(v) ==
    CASE v.t = "string" -> DateParse(v.s)
      [] v.t = "number" ->
            LET n == IF v.num >= 0 THEN v.num \div v.den
                     ELSE -((-v.num) \div v.den)
            IN  TimeValue(n \div MsPerDay, n % MsPerDay)
      [] v.t = "boolean" -> TimeValue(0, IF v.b THEN 1 ELSE 0)
      [] v.t = "null" -> TimeValue(0, 0)
      [] OTHER -> NaN   \* undefined; objects and functions convert to text
                        \* that is no date

\* Date.prototype.toISOString: the canonical text, or a thrown RangeError
\* ("Invalid time value") for NaN
ToISOString(tv) ==
    IF tv.nan THEN [threw |-> "RangeError", s |-> <<>>]
    ELSE LET c == CivilFromDays(tv.day)
             h == tv.ms \div 3600000
             mi == (tv.ms \div 60000) % 60
             s == (tv.ms \div 1000) % 60
             ms == tv.ms % 1000
         IN  [threw |-> "none",
              s |-> Pad(c.y, 4) \o <<"-">> \o Pad(c.m, 2) \o <<"-">>
                    \o Pad(c.d, 2) \o <<"T">> \o Pad(h, 2) \o <<":">>
                    \o Pad(mi, 2) \o <<":">> \o Pad(s, 2) \o <<".">>
                    \o Pad(ms, 3) \o <<"Z">>]

---------------------------------------------------------------------------
(* UUID_FORMAT (types.js 6): the pattern is a sequence of pieces, each a    *)
(* character class repeated a fixed number of times, anchored at both ends *)
(* and matched case-insensitively.                                         *)

HexDigits ==
    {"0", "1", "2", "3", "4", "5", "6", "7", "8", "9",
     "a", "b", "c", "d", "e", "f", "A", "B", "C", "D", "E", "F"}

\* UUID_FORMAT with any hex digit accepted as the version digit
UUID_FORMAT_AnyVersion ==
    <<[class |-> HexDigits, count |-> 8], [class |-> {"-"}, count |-> 1],
      [class |-> HexDigits, count |-> 4], [class |-> {"-"}, count |-> 1],
      [class |-> HexDigits, count |-> 4], [class |-> {"-"}, count |-> 1],
      [class |-> {"8", "9", "a", "b", "A", "B"}, count |-> 1],
      [class |-> HexDigits, count |-> 3], [class |-> {"-"}, count |-> 1],
      [class |-> HexDigits, count |-> 12]>>

UUID_FORMAT ==
    <<[class |-> HexDigits, count |-> 8], [class |-> {"-"}, count |-> 1],
      [class |-> HexDigits, count |-> 4], [class |-> {"-"}, count |-> 1],
      [class |-> {"1", "2", "3", "4", "5"}, count |-> 1],
      [class |-> HexDigits, count |-> 3], [class |-> {"-"}, count |-> 1],
      [class |-> {"8", "9", "a", "b", "A", "B"}, count |-> 1],
      [class |-> HexDigits, count |-> 3], [class |-> {"-"}, count |-> 1],
      [class |-> HexDigits, count |-> 12]>>

RECURSIVE RegexTest(_, _)
\* pattern.test(chars) for ^piece...piece$
RegexTest(pattern, chars) ==
    IF pattern = <<>> THEN chars = <<>>
    ELSE LET piece == Head(pattern)
         IN  /\ Len(chars) >= piece.count
             /\ \A i \in 1..piece.count : chars[i] \in piece.class
             /\ RegexTest(Tail(pattern),
                          SubSeq(chars, piece.count + 1, Len(chars)))

\* _.isString(value)
IsString(v) == v.t = "string"

\* Number.isInteger(value)
NumberIsInteger(v) == v.t = "number" /\ v.num % v.den = 0

---------------------------------------------------------------------------
(* Results of a call: a returned value or a thrown error *)

Return(v) == [kind |-> "return", value |-> v, error |-> "none", messages |-> <<>>]

Throw(error, messages) ==
    [kind |-> "throw", value |-> Undefined, error |-> error, messages |-> messages]

\* class ValidationError: `new ValidationError()` has no messages
ValidationError == <<>>

\* ValidationError.addFieldError(message)
addFieldError(messages, message) == Append(messages, message)

\* ValidationError.getFieldErrors()
getFieldErrors(out) == out.messages

\* field + ': ' + message
Prefixed(field, message) == <<field, ": ">> \o message

---------------------------------------------------------------------------
(* Constructors.  A validator is [cls, type, description, required, schema]; *)
(* schema is the field mapping (own properties in enumeration order) of a   *)
(* SchemaType and <<>> otherwise.                                           *)

tString == <<"S", "t", "r", "i", "n", "g">>

tInteger == <<"I", "n", "t", "e", "g", "e", "r">>

tISO8601 == <<"I", "S", "O", "8", "6", "0", "1">>

tUUID == <<"U", "U", "I", "D">>

tConstant == <<"C", "o", "n", "s", "t", "a", "n", "t">>

tSchema == <<"S", "c", "h", "e", "m", "a">>

\* Validator.constructor(type, description, required = true)
Validator(cls, type, description, required) ==
    [cls |-> cls,
     type |-> type,
     description |-> OrElse(description, Str(<<>>)),
     required |-> IF required.t = "undefined" THEN Bool(TRUE) ELSE required,
     schema |-> <<>>]

StringType(description, required) ==
    Validator("StringType", Str(tString), description, required)

IntegerType(description, required) ==
    Validator("IntegerType", Str(tInteger), description, required)

ISO8601Type(description, required) ==
    Validator("ISO8601Type", Str(tISO8601), description, required)

UUIDType(description, required) ==
    Validator("UUIDType", Str(tUUID), description, required)

ConstantType(v) == Validator("ConstantType", Str(tConstant), v, Bool(TRUE))

SchemaType(schema) ==
    [Validator("SchemaType", Str(tSchema), Null, Bool(TRUE)) EXCEPT !.schema = schema]

\* mapping[key] = v for a key that is not an array index: an existing key
\* keeps its place in the creation order, a new key goes last
Assign(mapping, key, v) ==
    IF \E i \in DOMAIN mapping : mapping[i].k = key
    THEN [i \in DOMAIN mapping |->
            IF mapping[i].k = key THEN Prop(key, v) ELSE mapping[i]]
    ELSE Append(mapping, Prop(key, v))

\* EventType.constructor(eventName, schema)
EventType(eventName, schema) ==
    [SchemaType(Assign(schema, "type", ConstantType(eventName)))
        EXCEPT !.cls = "EventType"]

---------------------------------------------------------------------------
(* Property access and enumeration on an arbitrary value *)

\* value[field]: the property, or a thrown TypeError on null and undefined
Get(v, field) ==
    CASE v.t \in {"null", "undefined"} -> Throw("TypeError", <<>>)
      [] v.t = "object" ->
            IF field \in OwnKeys(v) THEN Return(OwnValue(v, field))
            ELSE IF field \in ObjectPrototypeKeys THEN Return(Function)
            ELSE Return(Undefined)
      [] v.t = "string" ->
            IF field = "length" THEN Return(Num(Len(v.s)))
            ELSE IF \E i \in 1..Len(v.s) : IndexNames[i] = field
            THEN Return(Str(<<v.s[CHOOSE i \in 1..Len(v.s) : IndexNames[i] = field]>>))
            ELSE IF field \in ObjectPrototypeKeys THEN Return(Function)
            ELSE Return(Undefined)
      [] OTHER ->
            IF field \in ObjectPrototypeKeys THEN Return(Function)
            ELSE Return(Undefined)

\* The keys `for (const field in value)` visits, in order
ForInKeys(v) ==
    CASE v.t = "object" ->
            LET ordered == ForInOrder(v.props)
            IN  [i \in DOMAIN ordered |-> ordered[i].k]
      [] v.t = "string" -> [i \in 1..Len(v.s) |-> IndexNames[i]]
      [] OTHER -> <<>>

\* field in validated, for the object literal `validated` with own keys `own`
In(field, own) == field \in own \/ field \in ObjectPrototypeKeys

---------------------------------------------------------------------------
(* validate *)

\* validateType(value) of each class: [threw, result]
validateType(self, v) ==
    CASE self.cls = "StringType" -> [threw |-> "none", result |-> IsString(v)]
      [] self.cls = "IntegerType" -> [threw |-> "none", result |-> NumberIsInteger(v)]
      [] self.cls = "ISO8601Type" ->
            LET parsedDate == NewDate(v)
                text == ToISOString(parsedDate)
            IN  [threw |-> text.threw,
                 result |-> text.threw = "none" /\ StrictEquals(Str(text.s), v)]
      [] self.cls = "UUIDType" ->
            [threw |-> "none",
             result |-> IsString(v) /\ RegexTest(UUID_FORMAT, v.s)]
      [] OTHER -> [threw |-> "none", result |-> TRUE]

\* Validator.validate(value)
Validator_validate(self, v) ==
    IF v.t \in {"null", "undefined"}
    THEN IF Truthy(self.required)
         THEN Throw("ValidationError",
                    addFieldError(ValidationError, <<"field is required">>))
         ELSE Return(Bool(TRUE))
    ELSE LET checked == validateType(self, v)
         IN  IF checked.threw # "none" THEN Throw(checked.threw, <<>>)
             ELSE IF ~checked.result
             THEN Throw("ValidationError",
                        addFieldError(ValidationError, <<"invalid type for field">>))
             ELSE Return(Bool(TRUE))

\* ConstantType.validate(value)
ConstantType_validate(self, v) ==
    IF ~StrictEquals(v, self.description)
    THEN Throw("ValidationError",
               addFieldError(ValidationError, <<"unmatched constant type">>))
    ELSE Return(Bool(TRUE))

\* Translate with only the first nested message carried upward
Translate_FirstOnly(returnErrors, field, fieldErrors) ==
    Append(returnErrors, Prefixed(field, fieldErrors[1]))

\* The catch block of SchemaType.validate: the translated messages of one
\* failed field appended to returnErrors
Translate(returnErrors, field, fieldErrors) ==
    returnErrors \o [i \in DOMAIN fieldErrors |-> Prefixed(field, fieldErrors[i])]

\* FieldStep that stops collecting after the first failed field
FieldStep_ShortCircuit(state, field, got) ==
    IF state.thrown THEN state
    ELSE IF got.kind = "return"
    THEN [state EXCEPT !.validated = @ \cup {field}]
    ELSE IF got.error = "ValidationError"
    THEN [validated |-> state.validated \cup {field},
          returnErrors |-> Translate(state.returnErrors, field, getFieldErrors(got)),
          thrown |-> TRUE]
    ELSE state

\* One iteration of the first loop of SchemaType.validate on the loop state
\* [validated (own keys of `validated`), returnErrors, thrown (returnErrors is set)]
FieldStep(state, field, got) ==
    IF got.kind = "return"
    THEN [state EXCEPT !.validated = @ \cup {field}]
    ELSE IF got.error = "ValidationError"
    THEN [validated |-> state.validated \cup {field},
          returnErrors |-> Translate(state.returnErrors, field, getFieldErrors(got)),
          thrown |-> TRUE]
    ELSE state

\* The second loop of SchemaType.validate: `validated` does not change in it,
\* so it appends one message per visited key that is not `in validated`, in
\* the order the keys are visited
RogueLoop(state, keys) ==
    LET rogue == SelectSeq(keys, LAMBDA field : ~In(field, state.validated))
    IN  [state EXCEPT
            !.returnErrors =
                @ \o [i \in DOMAIN rogue |->
                        Prefixed(rogue[i], <<"unexpected field">>)],
            !.thrown = @ \/ rogue # <<>>]

RECURSIVE validate(_, _)
RECURSIVE FieldLoop(_, _, _)

\* for (const field in this._schema) { try { ... } catch (error) { ... } }
FieldLoop(state, schema, v) ==
    IF schema = <<>> THEN state
    ELSE LET field == Head(schema).k
             read == Get(v, field)
             got == IF read.kind = "throw" THEN read
                    ELSE validate(Head(schema).v, read.value)
         IN  FieldLoop(FieldStep(state, field, got), Tail(schema), v)

\* SchemaType.validate(value)
SchemaType_validate(self, v) ==
    LET start == [validated |-> {}, returnErrors |-> ValidationError, thrown |-> FALSE]
        fields == FieldLoop(start, ForInOrder(self.schema), v)
        final == RogueLoop(fields, ForInKeys(v))
    IN  IF final.thrown THEN Throw("ValidationError", final.returnErrors)
        ELSE Return(Bool(TRUE))

\* validator.validate(value), dispatched on the class of the validator
validate(self, v) ==
    CASE self.cls \in {"SchemaType", "EventType"} -> SchemaType_validate(self, v)
      [] self.cls = "ConstantType" -> ConstantType_validate(self, v)
      [] OTHER -> Validator_validate(self, v)

---------------------------------------------------------------------------
(* getContract *)

\* Validator.getContract()
Validator_getContract(self) ==
    Obj(<<Prop("type", self.type),
          Prop("description", self.description),
          Prop("required", self.required)>>)

\* ConstantType.getContract()
ConstantType_getContract(self) ==
    Obj(<<Prop("value", self.description), Prop("required", Bool(TRUE))>>)

RECURSIVE getContract(_)

\* SchemaType.getContract that reads every field with the base class's
\* getContract instead of the field validator's own
SchemaType_getContract_Base(self) ==
    LET schema == ForInOrder(self.schema)
    IN  Obj([i \in DOMAIN schema |->
                Prop(schema[i].k, Validator_getContract(schema[i].v))])

\* SchemaType.getContract(): _.mapValues(this._schema, v => v.getContract())
SchemaType_getContract(self) ==
    LET schema == ForInOrder(self.schema)
    IN  Obj([i \in DOMAIN schema |->
                Prop(schema[i].k, getContract(schema[i].v))])

getContract(self) ==
    CASE self.cls \in {"SchemaType", "EventType"} -> SchemaType_getContract(self)
      [] self.cls = "ConstantType" -> ConstantType_getContract(self)
      [] OTHER -> Validator_getContract(self)

---------------------------------------------------------------------------
(* The validators and inputs the model draws from *)

\* Deepest nesting of SchemaType inside SchemaType among the schemas drawn
MaxDepth == 2

\* Most undeclared fields an input object carries at the top level
MaxRogue == 2

tTestType == <<"T", "e", "s", "t", "T", "y", "p", "e">>

Strings ==
    {sHello, sTen, sEmpty, sSMS, sIM, sIsoCanonical, sIsoDateOnly, sIsoHour24,
     sIsoFeb30, sIsoMonth13, sIsoLeapDay, sUuidV4, sUuidUpper, sUuidVersion6,
     sUuidVariantC, sUuidShort, sUuidNoDash, sUuidNonHex}

\* Values that are not objects
Atoms ==
    {Undefined, Null, Bool(TRUE), Bool(FALSE), Num(0), Num(10), Num(-7),
     Frac(3, 2)} \cup {Str(s) : s \in Strings}

Descriptions == {Undefined, Str(sHello)}

Requireds == {Undefined, Bool(TRUE), Bool(FALSE)}

\* new types.Validator(..), new types.String(..), ... as the tests and
\* events.js construct them
Primitives ==
    UNION {{Validator("Validator", Str(tTestType), d, r), StringType(d, r),
            IntegerType(d, r), ISO8601Type(d, r), UUIDType(d, r)} :
           d \in Descriptions, r \in Requireds}

ConstantLiterals == {Str(sSMS), Str(sIM), Str(sEmpty), Num(0), Num(10), Bool(FALSE)}

\* Field validators of the generated schemas
Leaves ==
    {StringType(Str(sHello), Undefined), IntegerType(Str(sHello), Bool(FALSE)),
     ISO8601Type(Undefined, Undefined), UUIDType(Undefined, Bool(FALSE))}

FieldNames == <<"stringField", "intField">>

RogueNames == <<"rogueField", "toString", "constructor", "extraField">>

\* Mappings of at most two of the field names, in either order, to validators
Mappings(validators) ==
    {<<>>}
    \cup {<<Prop(FieldNames[i], a)>> : i \in DOMAIN FieldNames, a \in validators}
    \cup UNION {{<<Prop(FieldNames[i], a), Prop(FieldNames[j], b)>> :
                    j \in (DOMAIN FieldNames) \ {i},
                    a \in validators, b \in validators} : i \in DOMAIN FieldNames}

FlatSchemas == {SchemaType(m) : m \in Mappings(Leaves)}

\* The schema of the tests' "simple schema"
SimpleSchema ==
    SchemaType(<<Prop("stringField", StringType(Str(sHello), Undefined)),
                 Prop("intField", IntegerType(Str(sHello), Bool(FALSE)))>>)

RECURSIVE SchemasOfDepth(_)
\* Schemas nesting exactly d levels: a schemaField holding a schema one level
\* shallower; at two levels also beside a uuidField declared before or after
\* it (the tests' "nested schema")
SchemasOfDepth(d) ==
    IF d = 1 THEN {s \in FlatSchemas : Len(s.schema) = 1} \cup {SimpleSchema}
    ELSE LET sibling == Prop("uuidField", UUIDType(Str(sHello), Undefined))
         IN  UNION {{SchemaType(<<Prop("schemaField", inner)>>)}
                    \cup (IF d = 2
                          THEN {SchemaType(<<Prop("schemaField", inner), sibling>>),
                                SchemaType(<<sibling, Prop("schemaField", inner)>>)}
                          ELSE {}) :
                    inner \in SchemasOfDepth(d - 1)}

NestedSchemas == UNION {SchemasOfDepth(d) : d \in 2..MaxDepth}

\* Pairs of field names of which at least one is an array index, as declared
IndexedNames == {<<"stringField", "1">>, <<"1", "0">>, <<"0", "1">>, <<"10", "9">>}

\* Schemas declaring a required String and a required Integer under them
IndexedSchemas ==
    {SchemaType(<<Prop(names[1], StringType(Str(sHello), Undefined)),
                  Prop(names[2], IntegerType(Undefined, Undefined))>>) :
        names \in IndexedNames}

EventNames == {Str(sSMS), Str(sIM)}

\* Schemas declaring a field under a name every object inherits from
\* Object.prototype
InheritedNamedSchemas ==
    {SchemaType(<<Prop("valueOf", StringType(Str(sHello), Bool(FALSE)))>>),
     SchemaType(<<Prop("stringField", StringType(Str(sHello), Undefined)),
                  Prop("hasOwnProperty", IntegerType(Undefined, Undefined))>>)}

\* Every construction the model starts from: the constructor's value argument
\* (undefined where it takes none) and the object constructed
Constructions ==
    {[arg |-> Undefined, obj |-> v] :
        v \in Primitives \cup FlatSchemas \cup NestedSchemas \cup IndexedSchemas
                \cup InheritedNamedSchemas}
    \cup {[arg |-> c, obj |-> ConstantType(c)] : c \in ConstantLiterals}
    \cup {[arg |-> n, obj |-> EventType(n, m)] :
            n \in EventNames, m \in {x \in Mappings(Leaves) : Len(x) <= 1}}

\* Values tried under a declared field whose validator is not a schema
PropValues == {Undefined, Null, Str(sHello), Num(10), Str(sIsoCanonical), Str(sUuidV4), Str(sSMS)}

\* All ways to keep or drop each entry of a sequence of alternatives:
\* options[i] is the set of properties allowed at position i (empty sequence
\* = the property is absent)
RECURSIVE Choices(_)
Choices(options) ==
    IF options = <<>> THEN {<<>>}
    ELSE {h \o t : h \in Head(options), t \in Choices(Tail(options))}

Reverse(seq) == [i \in DOMAIN seq |-> seq[Len(seq) + 1 - i]]

RECURSIVE ObjectsFor(_, _, _)
\* Input objects for a schema: every declared field absent or holding one of
\* the values tried for its validator, each of the first `rogue` undeclared
\* names absent or present, in declaration order and (when `both`) reversed;
\* objects nested one level down carry at most one undeclared name, deeper
\* ones none
ObjectsFor(self, rogue, both) ==
    LET tried(v) ==
            IF v.cls \in {"SchemaType", "EventType"}
            THEN {Null, Str(sHello)} \cup ObjectsFor(v, IF both THEN 1 ELSE 0, FALSE)
            ELSE IF v.cls = "ConstantType" THEN PropValues \cup EventNames
            ELSE PropValues
        declared == [i \in DOMAIN self.schema |->
                        {<<>>} \cup {<<Prop(self.schema[i].k, x)>> :
                                        x \in tried(self.schema[i].v)}]
        extra == [i \in 1..rogue |-> {<<>>, <<Prop(RogueNames[i], Str(sHello))>>}]
        props == Choices(declared \o extra)
    IN  {Obj(p) : p \in props} \cup (IF both THEN {Obj(Reverse(p)) : p \in props} ELSE {})

\* Objects whose undeclared fields include array indices, written after or
\* before the other fields
IndexedObjects ==
    LET props == <<Prop("rogueField", Str(sHello)), Prop("7", Num(10)),
                   Prop("stringField", Str(sHello)), Prop("3", Null)>>
    IN  {Obj(props), Obj(Reverse(props)), Obj(SubSeq(props, 1, 2)),
         Obj(SubSeq(props, 2, 4))}

\* The inputs tried on a validator
InputsFor(self) ==
    IF self.cls \in {"SchemaType", "EventType"}
    THEN Atoms \cup ObjectsFor(self, MaxRogue, TRUE) \cup IndexedObjects
    ELSE Atoms \cup {Obj(<<>>), Obj(<<Prop("stringField", Str(sHello))>>)}

---------------------------------------------------------------------------
(* The state machine: a validator is constructed, then one of its methods  *)
(* is called.                                                              *)

NoOutcome == [kind |-> "none", value |-> Undefined, error |-> "none", messages |-> <<>>]

Init ==
    /\ \E made \in Constructions :
          /\ validator = made.obj
          /\ literal = made.arg
    /\ value = Undefined
    /\ outcome = NoOutcome
    /\ pc = "constructed"
    /\ mappings = <<>>
    /\ objects = <<>>
    /\ inputs = <<>>
    /\ kept = <<>>
    /\ responses = <<>>

\* validator.validate(input)
CallValidate ==
    /\ pc = "constructed"
    /\ \E input \in InputsFor(validator) :
          /\ value' = input
          /\ outcome' = validate(validator, input)
    /\ pc' = "validated"
    /\ UNCHANGED <<validator, literal, mappings, objects, inputs, kept, responses>>

\* validator.getContract()
CallGetContract ==
    /\ pc = "constructed"
    /\ outcome' = Return(getContract(validator))
    /\ pc' = "contract"
    /\ UNCHANGED <<validator, literal, value, mappings, objects, inputs, kept, responses>>

Next == CallValidate \/ CallGetContract

Spec == Init /\ [][Next]_vars

---------------------------------------------------------------------------
(* Several validators over shared field-mapping objects *)

\* Most SchemaType and EventType objects constructed
MaxObjects == 2

\* A mapping entry that holds a reference to a constructed object
Ref(o) == [cls |-> "ref", object |-> o]

\* The mapping objects a caller holds before constructing anything: one with a
\* required String, one that already has a `type` entry
HeldMappings ==
    <<<<Prop("stringField", StringType(Str(sHello), Undefined))>>,
      <<Prop("type", StringType(Undefined, Bool(FALSE)))>>>>

\* The input values the callers validate
HeldInputs ==
    <<Obj(<<Prop("type", Str(sIM)), Prop("stringField", Str(sHello))>>),
      Obj(<<Prop("type", Str(sSMS))>>),
      Obj(<<Prop("schemaField", Obj(<<Prop("stringField", Num(10))>>))>>)>>

RECURSIVE ResolveObject(_)
\* The validator an object is, with this._schema and the validators it holds
\* read from the heap as it is now
ResolveObject(o) ==
    LET schema == mappings[objects[o].schema]
    IN  [SchemaType([i \in DOMAIN schema |->
                        Prop(schema[i].k,
                             IF schema[i].v.cls = "ref"
                             THEN ResolveObject(schema[i].v.object)
                             ELSE schema[i].v)])
            EXCEPT !.cls = objects[o].cls]

\* No result kept
NoCall == [validator |-> Null, value |-> Undefined, outcome |-> NoOutcome]

GraphInit ==
    /\ validator = Null
    /\ literal = Undefined
    /\ value = Undefined
    /\ outcome = NoOutcome
    /\ pc = "constructed"
    /\ mappings = HeldMappings
    /\ objects = <<>>
    /\ inputs = HeldInputs
    /\ kept = NoCall
    /\ responses = <<>>

\* new types.Schema(mapping), on a mapping object the caller holds:
\* this._schema = schema keeps the reference
NewSchema ==
    /\ Len(objects) < MaxObjects
    /\ \E m \in DOMAIN HeldMappings :
          objects' = Append(objects, [cls |-> "SchemaType", name |-> Undefined, schema |-> m])
    /\ pc' = "constructed"
    /\ UNCHANGED <<validator, literal, value, outcome, mappings, inputs, kept, responses>>

\* new types.Event(eventName, mapping), on a mapping object the caller holds:
\* schema.type = new ConstantType(eventName) writes into that object
NewEvent ==
    /\ Len(objects) < MaxObjects
    /\ \E m \in DOMAIN HeldMappings, eventName \in EventNames :
          /\ mappings' = [mappings EXCEPT ![m] = Assign(@, "type", ConstantType(eventName))]
          /\ objects' = Append(objects, [cls |-> "EventType", name |-> eventName, schema |-> m])
    /\ pc' = "constructed"
    /\ UNCHANGED <<validator, literal, value, outcome, inputs, kept, responses>>

\* new types.Schema({schemaField: object}), on a fresh mapping literal that
\* holds an object constructed before
NewNestedSchema ==
    /\ Len(objects) < MaxObjects
    /\ \E o \in DOMAIN objects :
          /\ mappings' = Append(mappings, <<Prop("schemaField", Ref(o))>>)
          /\ objects' = Append(objects, [cls |-> "SchemaType", name |-> Undefined,
                                         schema |-> Len(mappings) + 1])
    /\ pc' = "constructed"
    /\ UNCHANGED <<validator, literal, value, outcome, inputs, kept, responses>>

\* object.validate(input) in a module that throws one ValidationError object
\* of its own from every call instead of a new one per call: the messages of
\* the failing calls pile up in it
GraphValidate_SharedError ==
    /\ \E o \in DOMAIN objects, i \in DOMAIN inputs :
          LET self == ResolveObject(o)
              result == validate(self, inputs[i])
          IN  /\ validator' = self
              /\ literal' = objects[o].name
              /\ value' = inputs[i]
              /\ outcome' = IF result.error = "ValidationError"
                                 /\ outcome.error = "ValidationError"
                             THEN Throw("ValidationError",
                                        outcome.messages \o result.messages)
                             ELSE result
    /\ pc' = "validated"
    /\ UNCHANGED <<mappings, objects, inputs, kept, responses>>

\* object.validate(input) that keeps its per-field results in the input object
\* itself (validated = value) instead of in an object of its own
GraphValidate_StoresIntoInput ==
    /\ \E o \in DOMAIN objects, i \in DOMAIN inputs :
          LET self == ResolveObject(o)
              result == validate(self, inputs[i])
          IN  /\ validator' = self
              /\ literal' = objects[o].name
              /\ value' = inputs[i]
              /\ outcome' = result
              /\ inputs' = [inputs EXCEPT ![i] =
                              Obj([f \in DOMAIN self.schema |->
                                      Prop(self.schema[f].k, Bool(TRUE))])]
    /\ pc' = "validated"
    /\ UNCHANGED <<mappings, objects, kept, responses>>

\* object.validate(input), on a constructed object and an input the caller
\* holds: it reads this._schema and the input, and writes only objects of its
\* own (validated, returnErrors)
GraphValidate ==
    /\ \E o \in DOMAIN objects, i \in DOMAIN inputs :
          LET self == ResolveObject(o)
              result == validate(self, inputs[i])
          IN  /\ validator' = self
              /\ literal' = objects[o].name
              /\ value' = inputs[i]
              /\ outcome' = result
    /\ pc' = "validated"
    /\ UNCHANGED <<mappings, objects, inputs, kept, responses>>

\* The caller of the last object.validate(input) keeps what it got:
\* try { first = v.validate(input) } catch (error) { first = error.getFieldErrors() }
Keep ==
    /\ pc = "validated"
    /\ validator.cls \in {"SchemaType", "EventType"}
    /\ kept' = [validator |-> validator, value |-> value, outcome |-> outcome]
    /\ pc' = "kept"
    /\ UNCHANGED <<validator, literal, value, outcome, mappings, objects, inputs, responses>>

\* mapping.field.validate(input.field): a caller validates one field by hand
\* with a validator a held mapping holds
ValidateField ==
    /\ \E m \in DOMAIN HeldMappings, i \in DOMAIN inputs : \E f \in DOMAIN mappings[m] :
          LET self == mappings[m][f].v
              read == Get(inputs[i], mappings[m][f].k)
          IN  /\ validator' = self
              /\ literal' = IF self.cls = "ConstantType" THEN self.description ELSE Undefined
              /\ value' = read.value
              /\ outcome' = validate(self, read.value)
    /\ pc' = "validated"
    /\ UNCHANGED <<mappings, objects, inputs, kept, responses>>

GraphNext ==
    NewSchema \/ NewEvent \/ NewNestedSchema \/ GraphValidate \/ ValidateField \/ Keep

GraphSpec == GraphInit /\ [][GraphNext]_vars


---------------------------------------------------------------------------
(* The service: the event registry and the routes of server.js *)

\* "The ID of the user"
dUserID ==
    <<"T", "h", "e", " ", "I", "D", " ", "o", "f", " ", "t", "h", "e", " ",
      "u", "s", "e", "r">>

\* "the message of the text"
dImText ==
    <<"t", "h", "e", " ", "m", "e", "s", "s", "a", "g", "e", " ", "o", "f",
      " ", "t", "h", "e", " ", "t", "e", "x", "t">>

\* "unique ID of the message"
dMessageID ==
    <<"u", "n", "i", "q", "u", "e", " ", "I", "D", " ", "o", "f", " ", "t",
      "h", "e", " ", "m", "e", "s", "s", "a", "g", "e">>

\* "time the message was sent - ISO8601 format"
dTimestamp ==
    <<"t", "i", "m", "e", " ", "t", "h", "e", " ", "m", "e", "s", "s", "a",
      "g", "e", " ", "w", "a", "s", " ", "s", "e", "n", "t", " ", "-", " ",
      "I", "S", "O", "8", "6", "0", "1", " ", "f", "o", "r", "m", "a", "t">>

\* "Phone number"
dPhoneNumber ==
    <<"P", "h", "o", "n", "e", " ", "n", "u", "m", "b", "e", "r">>

\* "the text in the message"
dSmsText ==
    <<"t", "h", "e", " ", "t", "e", "x", "t", " ", "i", "n", " ", "t", "h",
      "e", " ", "m", "e", "s", "s", "a", "g", "e">>

\* "ok"
sOk ==
    <<"o", "k">>

\* "Event not found"
sEventNotFound ==
    <<"E", "v", "e", "n", "t", " ", "n", "o", "t", " ", "f", "o", "u", "n",
      "d">>

\* "Nothing found at that address"
sNothingFound ==
    <<"N", "o", "t", "h", "i", "n", "g", " ", "f", "o", "u", "n", "d", " ",
      "a", "t", " ", "t", "h", "a", "t", " ", "a", "d", "d", "r", "e", "s",
      "s">>

\* "invalid event type"
sInvalidEventType ==
    <<"i", "n", "v", "a", "l", "i", "d", " ", "e", "v", "e", "n", "t", " ",
      "t", "y", "p", "e">>

\* "missing arguments"
sMissingArguments ==
    <<"m", "i", "s", "s", "i", "n", "g", " ", "a", "r", "g", "u", "m", "e",
      "n", "t", "s">>

\* "toString"
sToString ==
    <<"t", "o", "S", "t", "r", "i", "n", "g">>

\* "returns the service contract"
dSpec ==
    <<"r", "e", "t", "u", "r", "n", "s", " ", "t", "h", "e", " ", "s", "e",
      "r", "v", "i", "c", "e", " ", "c", "o", "n", "t", "r", "a", "c", "t">>

\* "returns the schema of a particular event"
dSpecType ==
    <<"r", "e", "t", "u", "r", "n", "s", " ", "t", "h", "e", " ", "s", "c",
      "h", "e", "m", "a", " ", "o", "f", " ", "a", " ", "p", "a", "r", "t",
      "i", "c", "u", "l", "a", "r", " ", "e", "v", "e", "n", "t">>

\* "accepts a JSON object as input, identifies it as an event and validates it against the schema"
dValidate ==
    <<"a", "c", "c", "e", "p", "t", "s", " ", "a", " ", "J", "S", "O", "N",
      " ", "o", "b", "j", "e", "c", "t", " ", "a", "s", " ", "i", "n", "p",
      "u", "t", ",", " ", "i", "d", "e", "n", "t", "i", "f", "i", "e", "s",
      " ", "i", "t", " ", "a", "s", " ", "a", "n", " ", "e", "v", "e", "n",
      "t", " ", "a", "n", "d", " ", "v", "a", "l", "i", "d", "a", "t", "e",
      "s", " ", "i", "t", " ", "a", "g", "a", "i", "n", "s", "t", " ", "t",
      "h", "e", " ", "s", "c", "h", "e", "m", "a">>

\* lib/events.js: the IM event
IMEvent ==
    EventType(Str(sIM),
        <<Prop("userID", StringType(Str(dUserID), Undefined)),
          Prop("body", SchemaType(
              <<Prop("text", StringType(Str(dImText), Undefined)),
                Prop("messageID", UUIDType(Str(dMessageID), Undefined)),
                Prop("timestamp", ISO8601Type(Str(dTimestamp), Undefined))>>))>>)

\* lib/events.js: the SMS event
SMSEvent ==
    EventType(Str(sSMS),
        <<Prop("phoneNumber", StringType(Str(dPhoneNumber), Undefined)),
          Prop("body", SchemaType(
              <<Prop("text", StringType(Str(dSmsText), Undefined)),
                Prop("messageID", UUIDType(Str(dMessageID), Bool(FALSE))),
                Prop("timestamp", ISO8601Type(Str(dTimestamp), Undefined))>>))>>)

\* module.exports of lib/events.js: the registry, a plain object
events == <<Prop("IM", IMEvent), Prop("SMS", SMSEvent)>>

\* _.mapValues(events, eventSchema => eventSchema.getContract())
eventsContract ==
    Obj([i \in DOMAIN events |-> Prop(events[i].k, getContract(events[i].v))])

serviceContract ==
    Obj(<<Prop("routes",
               Obj(<<Prop("/spec", Str(dSpec)),
                     Prop("/spec/:type", Str(dSpecType)),
                     Prop("/validate", Str(dValidate))>>)),
          Prop("events", eventsContract)>>)

RECURSIVE Join(_)
\* The characters of a string as one name
Join(chars) == IF chars = <<>> THEN "" ELSE Head(chars) \o Join(Tail(chars))

\* The property name a value stands for in object[value]
PropertyKey(v) ==
    CASE v.t = "string" -> Join(v.s)
      [] v.t = "number" /\ v.den = 1 /\ v.num \in 0..(Len(IndexNames) - 1) ->
            IndexNames[v.num + 1]
      [] v.t \in {"undefined", "null"} -> v.t
      [] OTHER -> "[object Object]"

\* registry[key] on the plain object holding the events: an event, a member
\* inherited from Object.prototype, or undefined
Lookup(registry, key) ==
    IF \E i \in DOMAIN registry : registry[i].k = key
    THEN registry[CHOOSE i \in DOMAIN registry : registry[i].k = key].v
    ELSE IF key \in ObjectPrototypeKeys THEN Function
    ELSE Undefined

\* The value is one of the validator objects
IsValidator(x) == "cls" \in DOMAIN x

\* JSON.stringify(messages): a string holding the list, message by message,
\* each message as one JSON string
Stringify(messages) ==
    [t |-> "string", json |-> [i \in DOMAIN messages |-> Join(messages[i])]]

\* res.send(body) with the status set so far
Sent(status, body) == [status |-> status, body |-> body]

\* What one run of a handler did: the event it looked up, what event.validate
\* returned or threw if it was called, and its calls of res.send in order
Handled(event, result, sends) ==
    [event |-> event, outcome |-> result, responses |-> sends]

\* res.status(400).send({errors: errorReason}): the last statement of the
\* handler, reached on every path through it
SendErrors(errorReason) == <<Sent(400, Obj(<<Prop("errors", errorReason)>>))>>

\* try { event.validate(req.body); res.send('ok'); } catch (error) { ... }
\* and the last statement, given what event.validate returned or threw
Validated(event, result) ==
    IF result.kind = "return"
    THEN Handled(event, result, <<Sent(200, Str(sOk))>> \o SendErrors(Undefined))
    ELSE Handled(event, result,
                 SendErrors(IF result.error = "ValidationError"
                            THEN Stringify(getFieldErrors(result))
                            ELSE Undefined))

\* if (event) { ... } else { errorReason = 'invalid event type'; }
\* What was looked up may be a member of Object.prototype: then
\* event.validate is not a function, which is a TypeError inside the try,
\* caught and not a ValidationError
WithEvent(event, body) ==
    IF IsValidator(event) THEN Validated(event, validate(event, body))
    ELSE IF Truthy(event) THEN Handled(event, NoOutcome, SendErrors(Undefined))
    ELSE Handled(event, NoOutcome, SendErrors(Str(sInvalidEventType)))

\* app.post('/validate', (req, res) => ...) on a parsed body
PostValidateHandler(body) ==
    IF Truthy(body) /\ Truthy(Get(body, "type").value)
    THEN WithEvent(Lookup(events, PropertyKey(Get(body, "type").value)), body)
    ELSE Handled(Undefined, NoOutcome, SendErrors(Str(sMissingArguments)))

\* Values of the type field of a request body
BodyTypes ==
    {Str(sIM), Str(sSMS), Str(sToString), Str(sHello), Str(sEmpty), Num(10), Null}

\* Values of the body field of a request body
BodyBodies ==
    LET text == Prop("text", Str(sHello))
        messageID == Prop("messageID", Str(sUuidV4))
        timestamp == Prop("timestamp", Str(sIsoCanonical))
    IN  {Obj(<<>>), Obj(<<text, messageID, timestamp>>), Obj(<<text, timestamp>>),
         Obj(<<text, messageID, Prop("timestamp", Str(sTen))>>), Str(sHello)}

\* The parsed bodies of the requests made: each field absent or present
RequestBodies ==
    {Obj(p) : p \in Choices(
        <<{<<>>} \cup {<<Prop("type", x)>> : x \in BodyTypes},
          {<<>>, <<Prop("userID", Str(sHello))>>, <<Prop("userID", Num(10))>>},
          {<<>>, <<Prop("phoneNumber", Str(sHello))>>},
          {<<>>} \cup {<<Prop("body", x)>> : x \in BodyBodies}>>)}

\* The :type of the GET /spec/:type requests made
RequestTypes == {sIM, sSMS, sHello, sToString}

ServiceInit ==
    /\ validator = Null
    /\ literal = Undefined
    /\ value = Undefined
    /\ outcome = NoOutcome
    /\ pc = "listening"
    /\ mappings = <<>>
    /\ objects = <<>>
    /\ inputs = <<>>
    /\ kept = NoCall
    /\ responses = <<>>

\* app.get('/spec', ...)
GetSpec ==
    /\ pc = "listening"
    /\ responses' = <<Sent(200, serviceContract)>>
    /\ value' = Undefined
    /\ validator' = Null
    /\ outcome' = NoOutcome
    /\ pc' = "GET /spec"
    /\ UNCHANGED <<literal, mappings, objects, inputs, kept>>

\* app.get('/spec/:type', ...)
GetSpecType ==
    /\ pc = "listening"
    /\ \E type \in RequestTypes :
          /\ value' = Str(type)
          /\ responses' =
                IF type = <<>> \/ ~In(Join(type), OwnKeys(eventsContract))
                THEN <<Sent(404, Str(sEventNotFound))>>
                ELSE <<Sent(200, Get(eventsContract, Join(type)).value)>>
    /\ validator' = Null
    /\ outcome' = NoOutcome
    /\ pc' = "GET /spec/:type"
    /\ UNCHANGED <<literal, mappings, objects, inputs, kept>>

\* app.post('/validate', ...)
PostValidate ==
    /\ pc = "listening"
    /\ \E body \in RequestBodies :
          \E handled \in {PostValidateHandler(body)} :
              /\ value' = body
              /\ validator' = handled.event
              /\ outcome' = handled.outcome
              /\ responses' = handled.responses
    /\ pc' = "POST /validate"
    /\ UNCHANGED <<literal, mappings, objects, inputs, kept>>

\* app.use((req, res) => ...): every other route
NotFound ==
    /\ pc = "listening"
    /\ responses' = <<Sent(404, Str(sNothingFound))>>
    /\ value' = Undefined
    /\ validator' = Null
    /\ outcome' = NoOutcome
    /\ pc' = "other"
    /\ UNCHANGED <<literal, mappings, objects, inputs, kept>>

ServiceNext == GetSpec \/ GetSpecType \/ PostValidate \/ NotFound

ServiceSpec == ServiceInit /\ [][ServiceNext]_vars

---------------------------------------------------------------------------
(* Vocabulary of the properties *)

IsSchema(self) == self.cls \in {"SchemaType", "EventType"}

\* The value has properties to read: value[field] does not throw
HasProperties(v) == v.t \notin {"null", "undefined"}

Contains(seq, x) == \E i \in DOMAIN seq : seq[i] = x

DeclaredKeys(self) == {self.schema[i].k : i \in DOMAIN self.schema}

\* What the validator of the i-th declared field does, called on its own with
\* the input's value for that field
FieldOutcome(i) ==
    validate(validator.schema[i].v, Get(value, validator.schema[i].k).value)

RECURSIVE TotalMessages(_)
\* How many messages the declared fields 1..n fail with, each on its own
TotalMessages(n) ==
    IF n = 0 THEN 0
    ELSE TotalMessages(n - 1)
           + (IF FieldOutcome(n).error = "ValidationError"
              THEN Len(FieldOutcome(n).messages) ELSE 0)

\* The messages of this level about undeclared fields
IsUnexpected(message) == Len(message) = 3 /\ message[3] = "unexpected field"

SchemaCalled == pc = "validated" /\ IsSchema(validator)

---------------------------------------------------------------------------
(* SchemaType.validate: aggregation *)

\* C1: SchemaType.validate never short-circuits.  For every schema and every
\* input that has properties, each declared field whose validator fails with
\* a ValidationError has all of its messages, prefixed "<field>: ", in the
\* thrown error, whichever fields failed before it; and the thrown error holds
\* nothing besides these and the "unexpected field" messages of this level.
C1_AllFieldFailuresReported ==
    (SchemaCalled /\ HasProperties(value)) =>
        /\ \A i \in DOMAIN validator.schema :
              FieldOutcome(i).error = "ValidationError" =>
                  /\ outcome.error = "ValidationError"
                  /\ \A j \in DOMAIN FieldOutcome(i).messages :
                        Contains(outcome.messages,
                                 Prefixed(validator.schema[i].k,
                                          FieldOutcome(i).messages[j]))
        /\ Len(outcome.messages)
             = TotalMessages(Len(validator.schema))
               + Len(SelectSeq(outcome.messages, IsUnexpected))

\* The tests' schema {stringField: required String, intField: optional
\* Integer} on {intField: "hi there"} fails with exactly the two messages
C1_Witness ==
    /\ pc = "validated"
    /\ validator = SimpleSchema
    /\ value = Obj(<<Prop("intField", Str(sHello))>>)
    /\ outcome.error = "ValidationError"
    /\ Len(outcome.messages) = 2
    /\ {outcome.messages[i] : i \in DOMAIN outcome.messages}
         = {<<"intField", ": ", "invalid type for field">>,
            <<"stringField", ": ", "field is required">>}

\* C2: rogue-field detection is exact.  For every schema and every input
\* object, "<field>: unexpected field" is reported for exactly the own fields
\* of the input that the schema does not declare, whatever their names.
C2_RogueDetectionExact ==
    (SchemaCalled /\ value.t = "object") =>
        \A key \in OwnKeys(value) \cup DeclaredKeys(validator) :
            Contains(outcome.messages, Prefixed(key, <<"unexpected field">>))
                <=> (key \in OwnKeys(value) /\ key \notin DeclaredKeys(validator))

\* C3: a SchemaType is always required.  validate(null) and validate(undefined)
\* fail with the single message "field is required", and a schema-typed field
\* the input omits makes the enclosing validate fail with
\* "<field>: field is required".
C3_SchemaRequired ==
    /\ (SchemaCalled /\ ~HasProperties(value)) =>
          outcome = Throw("ValidationError", <<<<"field is required">>>>)
    /\ (SchemaCalled /\ value.t = "object") =>
          \A i \in DOMAIN validator.schema :
              (/\ IsSchema(validator.schema[i].v)
               /\ validator.schema[i].k \notin OwnKeys(value)) =>
                  Contains(outcome.messages,
                           Prefixed(validator.schema[i].k, <<"field is required">>))

---------------------------------------------------------------------------
(* Validator.validate and the primitive validators *)

BaseClasses == {"Validator", "StringType", "IntegerType", "ISO8601Type", "UUIDType"}

\* C4: two-phase base contract of Validator, StringType, IntegerType,
\* ISO8601Type and UUIDType.  A null or undefined value fails with the single
\* message "field is required" when required and returns true otherwise; a
\* present value either passes or fails with the single message
\* "invalid type for field", and with nothing else.
C4_TwoPhaseContract ==
    (pc = "validated" /\ validator.cls \in BaseClasses) =>
        IF ~HasProperties(value)
        THEN IF Truthy(validator.required)
             THEN outcome = Throw("ValidationError", <<<<"field is required">>>>)
             ELSE outcome = Return(Bool(TRUE))
        ELSE \/ outcome = Return(Bool(TRUE))
             \/ outcome = Throw("ValidationError", <<<<"invalid type for field">>>>)

\* The text parses as a date whose canonical ISO-8601 text is the same text
RoundTrips(v) ==
    /\ v.t = "string"
    /\ ~DateParse(v.s).nan
    /\ ToISOString(DateParse(v.s)).s = v.s

\* C5: ISO8601Type.validate on a present value succeeds iff the value is a
\* string that round-trips through date parsing; every other present value,
\* unparseable strings included, fails with exactly "invalid type for field"
\* and with no other kind of error.
C5_Iso8601InvalidType ==
    (pc = "validated" /\ validator.cls = "ISO8601Type" /\ HasProperties(value)) =>
        IF RoundTrips(value)
        THEN outcome = Return(Bool(TRUE))
        ELSE outcome = Throw("ValidationError", <<<<"invalid type for field">>>>)

\* C8: ConstantType.validate(v) returns true iff v is strictly equal to the
\* literal the validator was constructed with, and otherwise fails with the
\* single message "unmatched constant type".
C8_ConstantExact ==
    (pc = "validated" /\ validator.cls = "ConstantType") =>
        IF StrictEquals(value, literal)
        THEN outcome = Return(Bool(TRUE))
        ELSE outcome = Throw("ValidationError", <<<<"unmatched constant type">>>>)

\* Canonical UUID text, position by position
IsCanonicalUuid(chars) ==
    /\ Len(chars) = 36
    /\ \A i \in 1..36 :
          IF i \in {9, 14, 19, 24} THEN chars[i] = "-"
          ELSE IF i = 15 THEN chars[i] \in {"1", "2", "3", "4", "5"}
          ELSE IF i = 20 THEN chars[i] \in {"8", "9", "a", "b", "A", "B"}
          ELSE chars[i] \in HexDigits

\* What each primitive is documented to accept
Satisfies(cls, v) ==
    CASE cls = "StringType" -> v.t = "string"
      [] cls = "IntegerType" -> v.t = "number" /\ v.num % v.den = 0
      [] cls = "UUIDType" -> v.t = "string" /\ IsCanonicalUuid(v.s)

\* C9: for StringType, IntegerType and UUIDType, validate on a present value
\* succeeds iff the value satisfies the variant's predicate and otherwise
\* fails with exactly one message "invalid type for field".
C9_PrimitivePredicates ==
    (/\ pc = "validated"
     /\ validator.cls \in {"StringType", "IntegerType", "UUIDType"}
     /\ HasProperties(value)) =>
        IF Satisfies(validator.cls, value)
        THEN outcome = Return(Bool(TRUE))
        ELSE outcome = Throw("ValidationError", <<<<"invalid type for field">>>>)

\* A UUID whose version digit is 6 is rejected as an invalid type
C9_Witness ==
    /\ pc = "validated"
    /\ validator.cls = "UUIDType"
    /\ value = Str(sUuidVersion6)
    /\ outcome = Throw("ValidationError", <<<<"invalid type for field">>>>)

---------------------------------------------------------------------------
(* EventType and nesting *)

\* The messages of the outcome that begin with the given field name
MessagesOf(field) == SelectSeq(outcome.messages, LAMBDA m : Head(m) = field)

\* C6: EventType discriminator enforcement.  For an EventType constructed with
\* name N, validate fails with the message "type: unmatched constant type"
\* whenever the input's type is absent or is not exactly N, whatever the other
\* fields hold, and reports nothing about type when it is exactly N.
C6_DiscriminatorEnforced ==
    (pc = "validated" /\ validator.cls = "EventType") =>
        IF StrictEquals(Get(value, "type").value, literal)
        THEN MessagesOf("type") = <<>>
        ELSE /\ outcome.error = "ValidationError"
             /\ MessagesOf("type") = <<<<"type", ": ", "unmatched constant type">>>>

RECURSIVE Depth(_)
\* Levels of SchemaType nesting in a validator (0 for a primitive)
Depth(self) ==
    IF ~IsSchema(self) THEN 0
    ELSE LET below == {Depth(self.schema[i].v) : i \in DOMAIN self.schema}
         IN  1 + (IF below = {} THEN 0
                  ELSE CHOOSE d \in below : \A e \in below : e <= d)

\* C7: nested path-prefixing.  When a declared field's validator is itself a
\* SchemaType and the nested validation fails with messages m1..mk, the
\* parent's error holds exactly "<field>: m1" .. "<field>: mk" for that field,
\* in the same order; so every message carries one prefix per level, at most
\* as many as the schema nests.
C7_NestedPrefixing ==
    (SchemaCalled /\ HasProperties(value)) =>
        /\ \A i \in DOMAIN validator.schema :
              (/\ IsSchema(validator.schema[i].v)
               /\ FieldOutcome(i).error = "ValidationError") =>
                  MessagesOf(validator.schema[i].k)
                    = [j \in DOMAIN FieldOutcome(i).messages |->
                          Prefixed(validator.schema[i].k, FieldOutcome(i).messages[j])]
        /\ \A j \in DOMAIN outcome.messages :
              \E d \in 1..Depth(validator) : Len(outcome.messages[j]) = 2 * d + 1

\* The tests' nested schema on {schemaField: {}, uuidField: <uuid>} reports
\* the dotted path of the innermost required field
C7_Witness ==
    /\ pc = "validated"
    /\ validator = SchemaType(<<Prop("schemaField", SimpleSchema),
                                Prop("uuidField", UUIDType(Str(sHello), Undefined))>>)
    /\ value = Obj(<<Prop("schemaField", Obj(<<>>)), Prop("uuidField", Str(sUuidV4))>>)
    /\ outcome = Throw("ValidationError",
                       <<<<"schemaField", ": ", "stringField", ": ", "field is required">>>>)

---------------------------------------------------------------------------
(* SchemaType.validate: order of the messages *)

\* Where a key was written in a sequence of properties (0: nowhere)
PositionIn(props, key) ==
    IF \E i \in DOMAIN props : props[i].k = key
    THEN CHOOSE i \in DOMAIN props : props[i].k = key
    ELSE 0

\* C11: error ordering.  In the message list thrown by one SchemaType.validate
\* call all per-field messages come first, in schema-declaration order
\* whatever the field names are, followed by all "unexpected field" messages
\* in the order the undeclared fields appear in the input.
C11_ErrorOrdering ==
    (SchemaCalled /\ outcome.error = "ValidationError") =>
        \A p, q \in DOMAIN outcome.messages :
            LET first == outcome.messages[p]
                second == outcome.messages[q]
            IN  p < q =>
                  /\ ~(IsUnexpected(first) /\ ~IsUnexpected(second))
                  /\ (~IsUnexpected(first) /\ ~IsUnexpected(second)) =>
                        PositionIn(validator.schema, Head(first))
                          <= PositionIn(validator.schema, Head(second))
                  /\ (IsUnexpected(first) /\ IsUnexpected(second)
                        /\ value.t = "object") =>
                        PositionIn(value.props, Head(first))
                          < PositionIn(value.props, Head(second))

---------------------------------------------------------------------------
(* SchemaType.validate: inputs that are not objects *)

\* The message a declared field reports when it is required and absent
RequiredMessage(field) == <<field, ": ", "field is required">>

\* The declared fields whose validator is required
RequiredFields(self) ==
    SelectSeq(self.schema, LAMBDA p : Truthy(p.v.required))

\* C13: an input that is not object-like degrades gracefully.
\* SchemaType.validate applied to null, undefined, a number, a boolean or a
\* string raises nothing but a ValidationError, reports "<field>: field is
\* required" for every declared required field, and reports nothing else:
\* nothing for optional fields and no "unexpected field" message.
C13_NonObjectGraceful ==
    (SchemaCalled /\ value.t # "object") =>
        /\ outcome.error \in {"none", "ValidationError"}
        /\ \A i \in DOMAIN RequiredFields(validator) :
              Contains(outcome.messages, RequiredMessage(RequiredFields(validator)[i].k))
        /\ Len(outcome.messages) = Len(RequiredFields(validator))
        /\ (outcome.kind = "return") = (RequiredFields(validator) = <<>>)

---------------------------------------------------------------------------
(* SchemaType.validate: null and missing fields *)

\* The input object with one more property, written last
WithProperty(obj, key, v) == Obj(Append(obj.props, Prop(key, v)))

\* The input object without the property of that name
WithoutProperty(obj, key) == Obj(SelectSeq(obj.props, LAMBDA p : p.k # key))

\* C15: null and missing are equivalent.  For every schema, nested ones
\* included, and every input object, changing one declared field between
\* being absent and being present with an explicit null does not change the
\* outcome of SchemaType.validate: same success or failure, same message list.
C15_NullIsMissing ==
    (SchemaCalled /\ value.t = "object") =>
        \A i \in DOMAIN validator.schema :
            LET field == validator.schema[i].k
            IN  /\ field \notin OwnKeys(value) =>
                      validate(validator, WithProperty(value, field, Null)) = outcome
                /\ (field \in OwnKeys(value) /\ OwnValue(value, field) = Null) =>
                      validate(validator, WithoutProperty(value, field)) = outcome

---------------------------------------------------------------------------
(* getContract *)

ContractKeys(contract) == [i \in DOMAIN contract.props |-> contract.props[i].k]

RECURSIVE Mirrors(_, _)
\* The contract has the shape the validator declares: a schema's contract has
\* exactly the declared field names, as for..in visits them, each holding its validator's
\* own contract; a constant leaf is {value, required: true}; any other leaf is
\* {type, description, required}
Mirrors(self, contract) ==
    /\ contract.t = "object"
    /\ CASE IsSchema(self) ->
              /\ LET ordered == ForInOrder(self.schema)
                 IN  ContractKeys(contract) = [i \in DOMAIN ordered |-> ordered[i].k]
              /\ \A i \in DOMAIN self.schema :
                    /\ Get(contract, self.schema[i].k).value = getContract(self.schema[i].v)
                    /\ Mirrors(self.schema[i].v, Get(contract, self.schema[i].k).value)
         [] self.cls = "ConstantType" ->
              /\ ContractKeys(contract) = <<"value", "required">>
              /\ contract.props[2].v = Bool(TRUE)
         [] OTHER ->
              /\ ContractKeys(contract) = <<"type", "description", "required">>
              /\ contract.props[1].v.t = "string"

\* C10: getContract mirrors the declared structure exactly: a SchemaType or
\* EventType yields exactly the declared field names (plus type for an
\* EventType), each mapped to that field validator's own getContract();
\* primitive leaves have exactly the keys {type, description, required} and
\* constant leaves exactly {value, required: true}, at every nesting depth.
C10_ContractMirrorsSchema ==
    pc = "contract" =>
        /\ outcome.kind = "return"
        /\ Mirrors(validator, outcome.value)
        /\ validator.cls = "EventType" =>
              /\ Contains(ContractKeys(outcome.value), "type")
              /\ Get(outcome.value, "type").value
                   = Obj(<<Prop("value", literal), Prop("required", Bool(TRUE))>>)

\* The contract of an SMS event with one declared field
C10_Witness ==
    /\ pc = "contract"
    /\ validator.cls = "EventType"
    /\ literal = Str(sSMS)
    /\ ContractKeys(outcome.value) = <<"stringField", "type">>
    /\ Get(outcome.value, "type").value
         = Obj(<<Prop("value", Str(sSMS)), Prop("required", Bool(TRUE))>>)

---------------------------------------------------------------------------
(* Repeated calls and calls between constructions *)

\* A caller kept a result and a later object.validate call has returned
CalledAgain == pc = "validated" /\ kept # NoCall

AcceptsOwnNameOnly ==
    (/\ pc = "validated"
     /\ validator.cls = "EventType"
     /\ value.t = "object"
     /\ outcome.kind = "return") =>
        StrictEquals(Get(value, "type").value, literal)

\* The fields an object validates, as the heap stands
ValidatedFields(o) == DeclaredKeys(ResolveObject(o))

\* C14: each EventType keeps enforcing its own name after any sequence of
\* constructions, also from one mapping object or from a mapping that already
\* has a type entry: an instance constructed with name N accepts only inputs
\* whose type equals N, and constructing another object does not change the
\* set of fields an object constructed before validates.
C14_EventKeepsItsName ==
    [][/\ AcceptsOwnNameOnly'
       /\ \A o \in DOMAIN objects : ValidatedFields(o)' = ValidatedFields(o)]_vars

---------------------------------------------------------------------------
(* What a validate call writes *)

\* C17: validate is side-effect-free on shared state.  A validate call on any
\* validator (a primitive or a ConstantType held by a mapping, a SchemaType,
\* an EventType) changes neither the attributes of a validator, nor a schema
\* mapping, nor a child validator, nor an input value; the ValidationError it
\* throws is made in that call, so it carries the messages of that call alone
\* and an error a caller kept from an earlier call stays as it was.
C17_ValidateWritesNothingShared ==
    [][(pc' = "validated" /\ objects' = objects) =>
          /\ mappings' = mappings
          /\ inputs' = inputs
          /\ \A o \in DOMAIN objects : ResolveObject(o)' = ResolveObject(o)
          /\ kept' = kept
          /\ outcome' = validate(validator', value')]_vars

\* A caller kept the error of a failing call, and a later call on an
\* EventType has failed with an error of its own
C17_Witness ==
    /\ CalledAgain
    /\ validator.cls = "EventType"
    /\ kept.outcome.error = "ValidationError"
    /\ outcome.error = "ValidationError"
    /\ kept.outcome.messages # outcome.messages
    /\ mappings[1] # HeldMappings[1]

---------------------------------------------------------------------------
(* POST /validate *)

\* The type of the request body names an event of the registry
NamesRegisteredEvent(body) ==
    /\ Truthy(Get(body, "type").value)
    /\ \E i \in DOMAIN events : events[i].k = PropertyKey(Get(body, "type").value)

\* C16: POST /validate sends exactly one response per request.  When the body
\* names a registered event and event.validate succeeds, the one response is
\* 'ok' and no further response is attempted; when validation fails with a
\* ValidationError, the one response is status 400 carrying the message list;
\* when the type is missing or not a registered event, the one response is
\* status 400 and the core validate is never invoked.
C16_ExactlyOneResponse ==
    pc = "POST /validate" =>
        /\ Len(responses) = 1
        /\ (NamesRegisteredEvent(value) /\ outcome.kind = "return") =>
              responses = <<Sent(200, Str(sOk))>>
        /\ outcome.error = "ValidationError" =>
              responses = <<Sent(400, Obj(<<Prop("errors",
                                               Stringify(outcome.messages))>>))>>
        /\ ~NamesRegisteredEvent(value) =>
              /\ responses[1].status = 400
              /\ outcome = NoOutcome

=============================================================================
